---- MODULE Spec2Model ----
(***************************************************************************)
(* Model of the argocd-preprocessor project processor                      *)
(* (src/src/processor.rs, src/src/app_project.rs).                          *)
(*                                                                         *)
(* Strings are sequences of one-character strings, so that sanitize_name   *)
(* can be computed character by character.  JSON documents                 *)
(* (serde_json::Value) are tagged records.                                 *)
(***************************************************************************)
EXTENDS Integers, Sequences, FiniteSets, TLC

VARIABLES
    pc,               \* position of process(): which statement runs next
    targets,          \* ProjectProcessor.targets: target -> (project key -> ArgoCDProject)
    nfiles,           \* metadata files yielded by the glob so far
    app_dir,          \* directory names of the metadata file being processed
    metadata,         \* the Metadata of the file being processed
    work,             \* metadata files and target entries taken so far, over the whole run
    target,           \* name of the metadata.targets entry the loop took last ("" before the first)
    nentries,         \* entries of metadata.targets the loop has taken so far
    out_tree,         \* application output folders written by copy_and_template_folder
    hooks,            \* hook scripts run so far: environment and exit status
    out_files,        \* argocd-config project files written at the end of process()
    copy_fault,       \* the source entry copy_and_template_folder stopped at ("none": at no entry)
    name_in,          \* sanitize_name harness: the input string
    name_out,         \* sanitize_name harness: sanitize_name(name_in)
    name_twice,       \* sanitize_name harness: sanitize_name(name_out)
    name_pc,          \* sanitize_name harness: position
    merge_base,       \* merge harness: the base document as the caller passed it
    merge_a,          \* merge harness: the document behind a: &mut Value
    merge_b,          \* merge harness: the overlay document (b: Value)
    merge_pc,         \* merge harness: position
    gen_defaults,     \* context harness: config.default_application_options
    gen_options,      \* context harness: metadata.application_options
    gen_app_context,  \* context harness: the TemplateContext of the application
    gen_template_context, \* context harness: the context handed to render_template
    gen_pc            \* context harness: position

procVars == <<pc, targets, work, nfiles, app_dir, metadata, target, nentries, out_tree, hooks,
              out_files, copy_fault>>
nameVars == <<name_in, name_out, name_twice, name_pc>>
mergeVars == <<merge_base, merge_a, merge_b, merge_pc>>
genVars == <<gen_defaults, gen_options, gen_app_context, gen_template_context, gen_pc>>
harnessVars == <<nameVars, mergeVars, genVars>>
vars == <<procVars, nameVars, mergeVars, genVars>>

None == [some |-> FALSE]
Some(v) == [some |-> TRUE, v |-> v]

(***************************************************************************)
(* sanitize_name                                                           *)
(***************************************************************************)
max_dns_name_length == 253

LowerLetters == {"a","b","c","d","e","f","g","h","i","j","k","l","m",
                 "n","o","p","q","r","s","t","u","v","w","x","y","z"}
UpperLetters == {"A","B","C","D","E","F","G","H","I","J","K","L","M",
                 "N","O","P","Q","R","S","T","U","V","W","X","Y","Z"}
Digits == {"0","1","2","3","4","5","6","7","8","9"}
LowerOf == [c \in UpperLetters |->
              CASE c = "A" -> "a" [] c = "B" -> "b" [] c = "C" -> "c" [] c = "D" -> "d"
                [] c = "E" -> "e" [] c = "F" -> "f" [] c = "G" -> "g" [] c = "H" -> "h"
                [] c = "I" -> "i" [] c = "J" -> "j" [] c = "K" -> "k" [] c = "L" -> "l"
                [] c = "M" -> "m" [] c = "N" -> "n" [] c = "O" -> "o" [] c = "P" -> "p"
                [] c = "Q" -> "q" [] c = "R" -> "r" [] c = "S" -> "s" [] c = "T" -> "t"
                [] c = "U" -> "u" [] c = "V" -> "v" [] c = "W" -> "w" [] c = "X" -> "x"
                [] c = "Y" -> "y" [] c = "Z" -> "z"]

\* str::to_lowercase, on the ASCII characters the model uses
to_lowercase(s) ==
    [i \in 1..Len(s) |-> IF s[i] \in UpperLetters THEN LowerOf[s[i]] ELSE s[i]]

\* the complement of the regex class [^-a-z0-9.]
ValidDnsNameChars == LowerLetters \cup Digits \cup {"-", "."}

\* invalid_dns_name_chars.replace_all(&name, "-")
replace_all(s) ==
    [i \in 1..Len(s) |-> IF s[i] \in ValidDnsNameChars THEN s[i] ELSE "-"]

\* if name.len() > max_dns_name_length { name[..max_dns_name_length] } else { name }
truncate(s) ==
    IF Len(s) > max_dns_name_length THEN SubSeq(s, 1, max_dns_name_length) ELSE s

\* index of the first character of s that is not c (Len(s) + 1 when there is none)
FirstKept(s, c) ==
    IF \A i \in 1..Len(s) : s[i] = c THEN Len(s) + 1
    ELSE CHOOSE i \in 1..Len(s) : s[i] # c /\ \A j \in 1..(i - 1) : s[j] = c

\* index of the last character of s that is not c (0 when there is none)
LastKept(s, c) ==
    IF \A i \in 1..Len(s) : s[i] = c THEN 0
    ELSE CHOOSE i \in 1..Len(s) : s[i] # c /\ \A j \in (i + 1)..Len(s) : s[j] = c

\* str::trim_matches(c): drop every leading and trailing c
trim_matches(s, c) == SubSeq(s, FirstKept(s, c), LastKept(s, c))

\* the same steps without the cut to max_dns_name_length
sanitize_name_untruncated(name) ==
    trim_matches(replace_all(to_lowercase(name)), "-")

\* the same steps with the trim before the cut
sanitize_name_trim_first(name) ==
    truncate(trim_matches(replace_all(to_lowercase(name)), "-"))

sanitize_name(name) ==
    trim_matches(truncate(replace_all(to_lowercase(name))), "-")

(***************************************************************************)
(* serde_json::Value and merge                                             *)
(***************************************************************************)
Null == [t |-> "null"]
Number(n) == [t |-> "number", n |-> n]
String(s) == [t |-> "string", s |-> s]
Array(l) == [t |-> "array", l |-> l]
Object(m) == [t |-> "object", m |-> m]

is_null(v) == v.t = "null"
is_object(v) == v.t = "object"

\* fn default_serde_object() -> Value::Object(Map::new())
default_serde_object == Object(<<>>)

\* Option::unwrap_or_else(default_serde_object)
unwrap_or_default_object(o) == IF o.some THEN o.v ELSE default_serde_object

RECURSIVE merge_empty_replaces(_, _)
\* merge that takes the replace branch for an overlay without keys
merge_empty_replaces(a, b) ==
    IF is_object(a) /\ is_object(b) /\ DOMAIN b.m # {}
    THEN LET removed == {k \in DOMAIN b.m : is_null(b.m[k])}
             dom == (DOMAIN a.m \ removed) \cup (DOMAIN b.m \ removed)
         IN Object([k \in dom |->
                      IF k \in DOMAIN b.m
                      THEN merge_empty_replaces(
                               IF k \in DOMAIN a.m THEN a.m[k] ELSE Null, b.m[k])
                      ELSE a.m[k]])
    ELSE b

RECURSIVE merge(_, _)
\* fn merge(a: &mut Value, b: Value): the value a holds after the call.
\* The loop over b's entries touches one key of a per entry, so its result
\* does not depend on the iteration order.
merge(a, b) ==
    IF is_object(a) /\ is_object(b)
    THEN LET removed == {k \in DOMAIN b.m : is_null(b.m[k])}
             dom == (DOMAIN a.m \ removed) \cup (DOMAIN b.m \ removed)
         IN Object([k \in dom |->
                      IF k \in DOMAIN b.m
                      THEN merge(IF k \in DOMAIN a.m THEN a.m[k] ELSE Null, b.m[k])
                      ELSE a.m[k]])
    ELSE b

(***************************************************************************)
(* Inputs: the configuration and the metadata files of the input tree      *)
(***************************************************************************)
\* size of the input tree: its metadata.toml files plus the entries of their
\* targets lists, counted together
MaxWork == 6

\* Config (bargo.toml), loaded once by new()
config ==
    [application_template |-> "application.yaml.tera",
     argocd_namespace |-> "argocd",
     argocd_source_repo |-> "https://git.example/repo.git",
     targets |-> <<[name |-> "prod"], [name |-> "dev"]>>,
     vars |-> Some(Object([region |-> String("eu")])),
     default_application_options |-> Some(Object([prune |-> Number(1)]))]

ConfigTargetNames == {config.targets[i].name : i \in DOMAIN config.targets}

\* MetadataTarget { name, vars }: entries for the configured targets and for
\* one target that is not configured
MetadataTargets ==
    {[name |-> "prod", vars |-> None],
     [name |-> "dev", vars |-> Some(Object([region |-> Null, tier |-> Number(2)]))],
     [name |-> "staging2", vars |-> None]}

\* base name of the grandparent directory of a metadata file; None when the
\* application directory has no named parent
ProjectDirNames == {Some(<<"a">>), Some(<<"b">>), Some(<<"B">>), None}

DigitChar == <<"1", "2", "3", "4", "5", "6", "7", "8", "9">>

\* base name of the i-th application directory the glob yields
AppDirName(i) == <<"A", "p", DigitChar[i]>>

AppDirs(i) == [project : ProjectDirNames, app_name : {AppDirName(i)}]

NamespaceWhitelist == [group |-> "", kind |-> "Namespace"]
CrdWhitelist == [group |-> "apiextensions.k8s.io", kind |-> "CustomResourceDefinition"]

\* ProjectOptions { additional_namespaces, cluster_resource_whitelist }
ProjectOptionsValues ==
    {[additional_namespaces |-> Some(<< <<"a">>, <<"m">> >>),
      cluster_resource_whitelist |-> Some(<<NamespaceWhitelist, CrdWhitelist>>)]}

OptionalFieldsSet(md) ==
    Cardinality({f \in {"namespace", "script", "project_options"} : md[f].some})

\* Metadata (metadata.toml) with at most one of namespace, script and
\* project_options set; its targets list is read entry by entry by the loop
Metadatas ==
    {md \in [namespace : {None, Some(<<"n">>)},
             script : {None, Some("hook.sh")},
             application_options : {Some(Object([prune |-> Null, wave |-> Number(2)]))},
             project_options : {None} \cup {Some(o) : o \in ProjectOptionsValues}] :
        OptionalFieldsSet(md) <= 1}

NoAppDir == [project |-> None, app_name |-> <<>>]
NoMetadata ==
    [namespace |-> None, script |-> None, application_options |-> None,
     project_options |-> None]

(***************************************************************************)
(* app_project.rs                                                          *)
(***************************************************************************)
\* AppProject::new(name, namespace)
AppProjectNew(name, namespace) ==
    [api_version |-> "argoproj.io/v1alpha1",
     kind |-> "AppProject",
     metadata |-> [name |-> name, namespace |-> namespace],
     spec |-> [destinations |-> {},
               cluster_resource_whitelist |-> {},
               source_repos |-> {}]]

\* AppProjectDestination for the in-cluster server
InClusterDestination(namespace) ==
    [name |-> "in-cluster",
     namespace |-> namespace,
     server |-> "https://kubernetes.devault.svc"]

\* an assignment in place of the insertion: the earlier members are lost
insert_replacing(set, value) == {value}

\* HashSet::insert
insert(set, value) == set \cup {value}

\* a loop that stops after the first item of the list
insert_all_first_only(set, list) ==
    IF list = <<>> THEN set ELSE insert(set, Head(list))

RECURSIVE insert_all(_, _)
\* for item in list.iter() { set.insert(item) }
insert_all(set, list) ==
    IF list = <<>> THEN set
    ELSE insert_all(insert(set, Head(list)), Tail(list))

(***************************************************************************)
(* ProjectProcessor                                                        *)
(***************************************************************************)
\* how process() has ended: Ok, an Err of the named kind, or a panic
Returned == {"Ok", "MetadataError", "LayoutError", "RenderError", "CopyRenderError",
             "CopyError", "HookError", "WriteError", "PanicUnwrap", "PanicExtension"}

\* template_context_for_dir, given a directory whose names can be determined
template_context_for_dir(dir, target_name, md) ==
    [namespace |-> IF md.namespace.some THEN md.namespace.v
                   ELSE sanitize_name(dir.project.v),
     normalized_project |-> sanitize_name(dir.project.v),
     normalized_app_name |-> sanitize_name(dir.app_name),
     project |-> dir.project.v,
     app_name |-> dir.app_name,
     path |-> <<target_name, dir.project.v, dir.app_name>>,
     target_name |-> target_name]

\* serde_json::to_value(app_context)
to_value(ctx) ==
    Object([namespace |-> String(ctx.namespace),
            normalized_project |-> String(ctx.normalized_project),
            normalized_app_name |-> String(ctx.normalized_app_name),
            project |-> String(ctx.project),
            app_name |-> String(ctx.app_name),
            path |-> String(ctx.path),
            target_name |-> String(ctx.target_name)])

\* a successful render_template: the text is a function of template and context
render_template(template_name, template_context) ==
    [template |-> template_name, context |-> template_context]

\* lines 170-182 with the RenderContext merged first, below the two option
\* documents
template_context_options_last(default_application_options, application_options, app_context) ==
    merge(merge(to_value(app_context),
                unwrap_or_default_object(default_application_options)),
          unwrap_or_default_object(application_options))

\* lines 170-182: the local template_context, from the defaults, overlaid by
\* the metadata's application options, overlaid by the serialized app_context
template_context(default_application_options, application_options, app_context) ==
    merge(merge(unwrap_or_default_object(default_application_options),
                unwrap_or_default_object(application_options)),
          to_value(app_context))

\* generate_argo_application_for_dir, when the template renders
generate_argo_application_for_dir(md, ctx) ==
    render_template(config.application_template,
        template_context(config.default_application_options, md.application_options, ctx))

\* a map with one entry set
map_insert(map, key, value) ==
    [k \in DOMAIN map \cup {key} |-> IF k = key THEN value ELSE map[k]]

\* .entry(key).or_insert(ArgoCDProject { project: AppProject::new(..), applications: Vec::new() })
entry_or_insert(projects, key) ==
    IF key \in DOMAIN projects THEN projects[key]
    ELSE [project |-> AppProjectNew(key, config.argocd_namespace),
          applications |-> <<>>]

\* the key create_or_update_app_project_for_dir files the aggregate under
aggregate_key(ctx) == ctx.normalized_project

\* the key process() looks the aggregate up by before it pushes the manifest
lookup_key(ctx) == ctx.project

\* lines 207-263: the insertions into the three sets of the aggregate
updated_project(existing, md, ctx) ==
    LET repos == insert(existing.project.spec.source_repos, config.argocd_source_repo)
        dest0 == insert(existing.project.spec.destinations,
                        InClusterDestination(ctx.namespace))
        wl0 == insert(existing.project.spec.cluster_resource_whitelist,
                      NamespaceWhitelist)
        opts == md.project_options
        dest1 == IF opts.some /\ opts.v.additional_namespaces.some
                 THEN insert_all(dest0,
                        [i \in DOMAIN opts.v.additional_namespaces.v |->
                           InClusterDestination(opts.v.additional_namespaces.v[i])])
                 ELSE dest0
        wl1 == IF opts.some /\ opts.v.cluster_resource_whitelist.some
               THEN insert_all(wl0, opts.v.cluster_resource_whitelist.v)
               ELSE wl0
    IN [existing EXCEPT !.project.spec.source_repos = repos,
                        !.project.spec.destinations = dest1,
                        !.project.spec.cluster_resource_whitelist = wl1]

\* create_or_update_app_project_for_dir: the targets map it leaves
create_or_update_app_project_for_dir(tgts, target_name, md, ctx) ==
    LET key == aggregate_key(ctx)
        projects == tgts[target_name]
    IN [tgts EXCEPT ![target_name] =
           map_insert(projects, key, updated_project(entry_or_insert(projects, key), md, ctx))]

\* lines 98-103: get_mut(target).unwrap().get_mut(project) finds an aggregate
lookup_succeeds(tgts, target_name, ctx) ==
    lookup_key(ctx) \in DOMAIN tgts[target_name]

\* an insertion at the front of the list in place of the push at its end
push_front(tgts, target_name, ctx, argo_application) ==
    [tgts EXCEPT ![target_name][ctx.project].applications = <<argo_application>> \o @]

\* line 105: target_project.applications.push(argo_application)
push_application(tgts, target_name, ctx, argo_application) ==
    [tgts EXCEPT ![target_name][lookup_key(ctx)].applications =
        Append(@, argo_application)]

\* lines 110-118: the variable scope of the directory copy
target_vars(t) ==
    merge(unwrap_or_default_object(config.vars), unwrap_or_default_object(t.vars))

\* the record of one hook run: its environment and whether it exited with 0
hook_run(dir, ctx, success) ==
    [in |-> <<dir.project.v, dir.app_name>>, out |-> ctx.path, success |-> success]

\* lines 135-140 without the status check: the script's exit status is ignored
after_hook_unchecked(success) == "targets"

\* lines 135-140 with a break in place of the return: the failure ends the
\* metadata pass, and the project files are written all the same
after_hook_break(success) == IF success THEN "targets" ELSE "write"

\* lines 135-140: where process() goes after the script has exited
after_hook(success) == IF success THEN "targets" ELSE "HookError"

\* the source entries at which copy_and_template_folder can stop: a ".tera"
\* fragment that does not render, an entry that cannot be read, created,
\* written or copied, and a file whose name has no extension
CopyFaults == {"unrenderable_fragment", "io_error", "no_extension"}

\* how copy_and_template_folder ends at such an entry: render_template(..)?
\* and fs::..? return the error, path.extension().unwrap() panics on None
copy_and_template_folder(fault) ==
    CASE fault = "unrenderable_fragment" -> "CopyRenderError"
      [] fault = "io_error" -> "CopyError"
      [] fault = "no_extension" -> "PanicExtension"

\* line 86: self.targets.contains_key(&target.name)
contains_key(tgts, name) == name \in DOMAIN tgts

\* a break in place of the continue of line 88: the rest of the list is dropped
after_skip_break == "glob"

\* line 88: continue, the loop goes on to the next entry of the list
after_skip == "targets"

\* process(): lines 62-70, one output root and one empty map per configured target
SetupTargets ==
    /\ pc = "start"
    /\ targets' = [t \in ConfigTargetNames |-> <<>>]
    /\ out_tree' = [p \in {q \in DOMAIN out_tree : q[1] \notin ConfigTargetNames}
                      |-> out_tree[p]]
    /\ out_files' = [p \in {q \in DOMAIN out_files : q[1] \notin ConfigTargetNames}
                       |-> out_files[p]]
    /\ pc' = "glob"
    /\ UNCHANGED <<work, nfiles, app_dir, metadata, target, nentries, hooks>>
    /\ UNCHANGED copy_fault
    /\ UNCHANGED harnessVars

\* lines 72-83: the glob yields another metadata.toml and read_metadata parses it
NextMetadataFile ==
    /\ pc = "glob"
    /\ work < MaxWork
    /\ work' = work + 1
    /\ \E dir \in AppDirs(nfiles + 1), md \in Metadatas :
          /\ app_dir' = dir
          /\ metadata' = md
    /\ nfiles' = nfiles + 1
    /\ target' = ""
    /\ nentries' = 0
    /\ pc' = "targets"
    /\ UNCHANGED <<targets, out_tree, hooks, out_files>>
    /\ UNCHANGED copy_fault
    /\ UNCHANGED harnessVars

\* lines 72-78: the glob yields a file that read_metadata cannot read or parse
MetadataFileUnreadable ==
    /\ pc = "glob"
    /\ work < MaxWork
    /\ work' = work + 1
    /\ nfiles' = nfiles + 1
    /\ pc' = "MetadataError"
    /\ UNCHANGED <<targets, app_dir, metadata, target, nentries, out_tree, hooks, out_files>>
    /\ UNCHANGED copy_fault
    /\ UNCHANGED harnessVars

\* line 72: the glob is exhausted
GlobDone ==
    /\ pc = "glob"
    /\ pc' = "write"
    /\ UNCHANGED <<targets, work, nfiles, app_dir, metadata, target, nentries, out_tree, hooks,
                   out_files>>
    /\ UNCHANGED copy_fault
    /\ UNCHANGED harnessVars

\* lines 85-89: the next entry names a target that is not configured
SkipUnknownTarget ==
    /\ pc = "targets"
    /\ work < MaxWork
    /\ work' = work + 1
    /\ \E t \in MetadataTargets :
          /\ ~contains_key(targets, t.name)
          /\ target' = t.name
    /\ nentries' = nentries + 1
    /\ pc' = after_skip
    /\ UNCHANGED <<targets, nfiles, app_dir, metadata, out_tree, hooks, out_files>>
    /\ UNCHANGED copy_fault
    /\ UNCHANGED harnessVars

\* lines 91-92: template_context_for_dir cannot determine the project name
TargetLayoutError ==
    /\ pc = "targets"
    /\ work < MaxWork
    /\ work' = work + 1
    /\ \E t \in MetadataTargets :
          /\ contains_key(targets, t.name)
          /\ target' = t.name
    /\ ~app_dir.project.some
    /\ nentries' = nentries + 1
    /\ pc' = "LayoutError"
    /\ UNCHANGED <<targets, nfiles, app_dir, metadata, out_tree, hooks, out_files>>
    /\ UNCHANGED copy_fault
    /\ UNCHANGED harnessVars

\* lines 91-96: the aggregate is updated, then the application template fails to render
TargetRenderError ==
    /\ pc = "targets"
    /\ work < MaxWork
    /\ work' = work + 1
    /\ app_dir.project.some
    /\ \E t \in MetadataTargets :
          /\ contains_key(targets, t.name)
          /\ target' = t.name
          /\ LET ctx == template_context_for_dir(app_dir, t.name, metadata)
             IN targets' = create_or_update_app_project_for_dir(targets, t.name, metadata, ctx)
    /\ nentries' = nentries + 1
    /\ pc' = "RenderError"
    /\ UNCHANGED <<nfiles, app_dir, metadata, out_tree, hooks, out_files>>
    /\ UNCHANGED copy_fault
    /\ UNCHANGED harnessVars

\* lines 91-103: the aggregate is updated, the manifest rendered, and the lookup
\* of the aggregate finds nothing: unwrap() panics
TargetLookupPanics ==
    /\ pc = "targets"
    /\ work < MaxWork
    /\ work' = work + 1
    /\ app_dir.project.some
    /\ \E t \in MetadataTargets :
          /\ contains_key(targets, t.name)
          /\ target' = t.name
          /\ LET ctx == template_context_for_dir(app_dir, t.name, metadata)
                 updated == create_or_update_app_project_for_dir(targets, t.name, metadata, ctx)
             IN /\ ~lookup_succeeds(updated, t.name, ctx)
                /\ targets' = updated
    /\ nentries' = nentries + 1
    /\ pc' = "PanicUnwrap"
    /\ UNCHANGED <<nfiles, app_dir, metadata, out_tree, hooks, out_files>>
    /\ UNCHANGED copy_fault
    /\ UNCHANGED harnessVars

\* lines 91-124: the manifest is pushed, then copy_and_template_folder fails
\* (a fragment does not render, an I/O error, or a file without extension);
\* the output folder is left incomplete or missing
TargetCopyFails ==
    /\ pc = "targets"
    /\ work < MaxWork
    /\ work' = work + 1
    /\ app_dir.project.some
    /\ \E t \in MetadataTargets :
          /\ contains_key(targets, t.name)
          /\ target' = t.name
          /\ LET ctx == template_context_for_dir(app_dir, t.name, metadata)
                 updated == create_or_update_app_project_for_dir(targets, t.name, metadata, ctx)
                 app == generate_argo_application_for_dir(metadata, ctx)
             IN /\ lookup_succeeds(updated, t.name, ctx)
                /\ targets' = push_application(updated, t.name, ctx, app)
                /\ out_tree' = map_insert(out_tree, ctx.path,
                                  [vars |-> target_vars(t), complete |-> FALSE])
    /\ nentries' = nentries + 1
    /\ \E fault \in CopyFaults :
          /\ copy_fault' = fault
          /\ pc' = copy_and_template_folder(fault)
    /\ UNCHANGED <<nfiles, app_dir, metadata, hooks, out_files>>
    /\ UNCHANGED harnessVars

\* lines 91-143: one whole iteration for a configured target, up to the exit
\* of the hook script when the metadata names one
ProcessTarget ==
    /\ pc = "targets"
    /\ work < MaxWork
    /\ work' = work + 1
    /\ app_dir.project.some
    /\ \E t \in MetadataTargets :
          /\ contains_key(targets, t.name)
          /\ target' = t.name
          /\ LET ctx == template_context_for_dir(app_dir, t.name, metadata)
                 updated == create_or_update_app_project_for_dir(targets, t.name, metadata, ctx)
                 app == generate_argo_application_for_dir(metadata, ctx)
             IN /\ lookup_succeeds(updated, t.name, ctx)
                /\ targets' = push_application(updated, t.name, ctx, app)
                /\ out_tree' = map_insert(out_tree, ctx.path,
                                  [vars |-> target_vars(t), complete |-> TRUE])
                /\ IF metadata.script.some
                   THEN \E success \in BOOLEAN :
                           /\ hooks' = Append(hooks, hook_run(app_dir, ctx, success))
                           /\ pc' = after_hook(success)
                   ELSE /\ pc' = "targets"
                        /\ UNCHANGED hooks
    /\ nentries' = nentries + 1
    /\ UNCHANGED <<nfiles, app_dir, metadata, out_files>>
    /\ UNCHANGED copy_fault
    /\ UNCHANGED harnessVars

\* line 85: the metadata.targets list has no further entry
EndTargets ==
    /\ pc = "targets"
    /\ pc' = "glob"
    /\ app_dir' = NoAppDir
    /\ metadata' = NoMetadata
    /\ target' = ""
    /\ nentries' = 0
    /\ UNCHANGED <<targets, work, nfiles, out_tree, hooks, out_files>>
    /\ UNCHANGED copy_fault
    /\ UNCHANGED harnessVars

\* the orders in which iterating a HashSet can yield its members
iteration_orders(set) ==
    {f \in [1..Cardinality(set) -> set] : \A x \in set : \E i \in DOMAIN f : f[i] = x}

reverse(seq) == [i \in 1..Len(seq) |-> seq[Len(seq) + 1 - i]]

\* The keys of std's RandomState are drawn once per process, and the order in
\* which a HashSet yields its members is a function of the keys and the
\* members.  HashSeeds stands for the keys; two of the orders are modelled.
HashSeeds == {"k0", "k1"}

\* HashSet::iter() under the given keys
iter(set, seed) ==
    LET order == CHOOSE f \in iteration_orders(set) : TRUE
    IN IF seed = "k0" THEN order ELSE reverse(order)

\* serde_yaml::to_string(&project.project): the fields in declaration order,
\* each hash set as the sequence its iterator yields
to_string(project, seed) ==
    [apiVersion |-> project.api_version,
     kind |-> project.kind,
     metadata |-> project.metadata,
     spec |-> [destinations |-> iter(project.spec.destinations, seed),
               clusterResourceWhitelist |->
                   iter(project.spec.cluster_resource_whitelist, seed),
               sourceRepos |-> iter(project.spec.source_repos, seed)]]

DocumentBoundary == "\n---\n"

RECURSIVE write_applications(_, _)
\* lines 155-158: the boundary marker and the manifest, for each application
write_applications(file, applications) ==
    IF applications = <<>> THEN file
    ELSE write_applications(file \o <<DocumentBoundary, Head(applications)>>,
                            Tail(applications))

\* lines 151-158: the contents of the file of one ArgoCDProject
project_file(project, seed) ==
    write_applications(<<to_string(project.project, seed)>>, project.applications)

\* path of a project file: <output>/<target>/argocd-config/<project_name>.yaml
project_file_path(target_name, project_name) ==
    <<target_name, "argocd-config", project_name>>

project_file_paths(target_names) ==
    UNION {{project_file_path(t, p) : p \in DOMAIN targets[t]} : t \in target_names}

\* the output files after the loop of lines 147-160 has written the given paths
written_files(paths, seed) ==
    [q \in DOMAIN out_files \cup paths |->
        IF q \in paths THEN project_file(targets[q[1]][q[3]], seed) ELSE out_files[q]]

\* lines 147-162: every project file is written and process() returns Ok
WriteProjects ==
    /\ pc = "write"
    /\ \E seed \in HashSeeds :
          out_files' = written_files(project_file_paths(DOMAIN targets), seed)
    /\ pc' = "Ok"
    /\ UNCHANGED <<targets, work, nfiles, app_dir, metadata, target, nentries, out_tree, hooks>>
    /\ UNCHANGED copy_fault
    /\ UNCHANGED harnessVars

\* lines 147-160: an I/O failure ends the loop after the files of some targets
\* and some of the files of one more target
WriteProjectsFails ==
    /\ pc = "write"
    /\ \E seed \in HashSeeds, done \in SUBSET DOMAIN targets :
          /\ done # DOMAIN targets
          /\ out_files' = written_files(project_file_paths(done), seed)
    /\ pc' = "WriteError"
    /\ UNCHANGED <<targets, work, nfiles, app_dir, metadata, target, nentries, out_tree, hooks>>
    /\ UNCHANGED copy_fault
    /\ UNCHANGED harnessVars

\* output left by an earlier run
StaleTree ==
    [p \in {<<"prod", <<"o", "l", "d">>, <<"a", "p", "p">> >>} |->
        [vars |-> default_serde_object, complete |-> TRUE]]
StaleFiles == [p \in {project_file_path("prod", <<"o", "l", "d">>)} |-> <<"stale">>]

ProcInit ==
    /\ pc = "start"
    /\ targets = <<>>
    /\ work = 0
    /\ nfiles = 0
    /\ app_dir = NoAppDir
    /\ metadata = NoMetadata
    /\ target = ""
    /\ nentries = 0
    /\ \E stale \in BOOLEAN :
          /\ out_tree = IF stale THEN StaleTree ELSE <<>>
          /\ out_files = IF stale THEN StaleFiles ELSE <<>>
    /\ hooks = <<>>
    /\ copy_fault = "none"

(***************************************************************************)
(* sanitize_name applied to bounded inputs                                 *)
(***************************************************************************)
MaxPrefix == 1   \* characters before the filler of an input name
MaxSuffix == 2   \* characters after the filler of an input name
MaxSlack == 2    \* how far below max_dns_name_length the filler lengths start

NameChars == {"a", "B", "7", "-", ".", "_"}
FillChars == {"a", "-"}

StringsUpTo(n) == UNION {[1..k -> NameChars] : k \in 0..n}

Repeat(c, k) == [i \in 1..k |-> c]

FillLengths == {0} \cup ((max_dns_name_length - MaxSlack)..(max_dns_name_length + 1))

\* input names: short ones, and ones around the length limit
NameInputs ==
    {p \o Repeat(c, k) \o s :
        p \in StringsUpTo(MaxPrefix), c \in FillChars, k \in FillLengths,
        s \in StringsUpTo(MaxSuffix)}

NameInit ==
    /\ name_in \in NameInputs
    /\ name_out = <<>>
    /\ name_twice = <<>>
    /\ name_pc = "in"

\* let name = sanitize_name(&input)
Sanitize ==
    /\ name_pc = "in"
    /\ name_out' = sanitize_name(name_in)
    /\ name_pc' = "once"
    /\ UNCHANGED <<name_in, name_twice>>
    /\ UNCHANGED <<procVars, mergeVars, genVars>>

\* let name = sanitize_name(&name)
SanitizeAgain ==
    /\ name_pc = "once"
    /\ name_twice' = sanitize_name(name_out)
    /\ name_pc' = "twice"
    /\ UNCHANGED <<name_in, name_out>>
    /\ UNCHANGED <<procVars, mergeVars, genVars>>

(***************************************************************************)
(* merge applied to bounded documents                                      *)
(***************************************************************************)
MaxNumber == 1   \* the numbers 1..MaxNumber are the scalars of the documents

Keys == {"x", "y"}

\* the maps with keys among Keys and values in the given set
MapsOver(values) == UNION {[d -> values] : d \in SUBSET Keys}

Leaves == {Null, Array(<<Number(1)>>)} \cup {Number(n) : n \in 1..MaxNumber}
Docs1 == Leaves \cup {Object(m) : m \in MapsOver(Leaves)}
Docs2 == Leaves \cup {Object(m) : m \in MapsOver(Docs1)}

MergeInit ==
    /\ merge_base \in Docs2
    /\ merge_b \in Docs2
    /\ merge_a = merge_base
    /\ merge_pc = "call"

\* merge(&mut a, b)
Merge ==
    /\ merge_pc = "call"
    /\ merge_a' = merge(merge_a, merge_b)
    /\ merge_pc' = "merged"
    /\ UNCHANGED <<merge_base, merge_b>>
    /\ UNCHANGED <<procVars, nameVars, genVars>>

(***************************************************************************)
(* the manifest context built from bounded option documents                 *)
(***************************************************************************)
\* keys of the option documents: two fields of TemplateContext and two others
OptionKeys == {"namespace", "project", "wave", "prune"}

\* values of the option documents at a key
OptionValues ==
    {Null, Number(1), String(<<"o">>), Object([x |-> Number(1)]), Object([x |-> Null])}

\* Option<serde_json::Value> as bargo.toml and metadata.toml can give it:
\* absent, a scalar, or a table with at most two of the keys
OptionDocs ==
    {None, Some(Number(1))} \cup
    {Some(Object(m)) :
        m \in UNION {[d -> OptionValues] : d \in {e \in SUBSET OptionKeys : Cardinality(e) <= 2}}}

\* TemplateContexts as template_context_for_dir returns them
AppContexts ==
    {template_context_for_dir([project |-> Some(p), app_name |-> AppDirName(1)], "prod",
                              [NoMetadata EXCEPT !.namespace = ns]) :
        p \in {<<"a">>, <<"B">>}, ns \in {None, Some(<<"n">>)}}

GenInit ==
    /\ gen_defaults \in OptionDocs
    /\ gen_options \in OptionDocs
    /\ gen_app_context \in AppContexts
    /\ gen_template_context = Null
    /\ gen_pc = "call"

\* lines 170-182 of generate_argo_application_for_dir
Generate ==
    /\ gen_pc = "call"
    /\ gen_template_context' = template_context(gen_defaults, gen_options, gen_app_context)
    /\ gen_pc' = "built"
    /\ UNCHANGED <<gen_defaults, gen_options, gen_app_context>>
    /\ UNCHANGED <<procVars, nameVars, mergeVars>>

GenIdle ==
    /\ gen_defaults = None
    /\ gen_options = None
    /\ gen_app_context = Null
    /\ gen_template_context = Null
    /\ gen_pc = "idle"

ProcIdle ==
    /\ pc = "idle"
    /\ targets = <<>>
    /\ work = 0
    /\ nfiles = 0
    /\ app_dir = NoAppDir
    /\ metadata = NoMetadata
    /\ target = ""
    /\ nentries = 0
    /\ out_tree = <<>>
    /\ hooks = <<>>
    /\ copy_fault = "none"
    /\ out_files = <<>>

NameIdle ==
    /\ name_in = <<>>
    /\ name_out = <<>>
    /\ name_twice = <<>>
    /\ name_pc = "idle"

MergeIdle ==
    /\ merge_base = Null
    /\ merge_a = Null
    /\ merge_b = Null
    /\ merge_pc = "idle"

Init ==
    /\ ProcInit
    /\ NameIdle
    /\ MergeIdle
    /\ GenIdle

Next ==
    \/ SetupTargets
    \/ NextMetadataFile
    \/ MetadataFileUnreadable
    \/ GlobDone
    \/ SkipUnknownTarget
    \/ TargetLayoutError
    \/ TargetRenderError
    \/ TargetLookupPanics
    \/ TargetCopyFails
    \/ ProcessTarget
    \/ EndTargets
    \/ WriteProjects
    \/ WriteProjectsFails

Spec == Init /\ [][Next]_vars

SanitizeInit ==
    /\ ProcIdle
    /\ NameInit
    /\ MergeIdle
    /\ GenIdle

SanitizeNext ==
    \/ Sanitize
    \/ SanitizeAgain

SpecSanitize == SanitizeInit /\ [][SanitizeNext]_vars

MergeSpecInit ==
    /\ ProcIdle
    /\ NameIdle
    /\ MergeInit
    /\ GenIdle

MergeNext == Merge

SpecMerge == MergeSpecInit /\ [][MergeNext]_vars

GenSpecInit ==
    /\ ProcIdle
    /\ NameIdle
    /\ MergeIdle
    /\ GenInit

GenNext == Generate

SpecGenerate == GenSpecInit /\ [][GenNext]_vars

(***************************************************************************)
(* Properties                                                              *)
(***************************************************************************)
\* the loop of process() takes an entry of metadata.targets that names a
\* configured target, for a directory whose project name can be determined
TakesConfiguredEntry ==
    /\ pc = "targets"
    /\ work' = work + 1
    /\ target' \in ConfigTargetNames
    /\ app_dir.project.some

\* the namespace of the application of the current metadata file
AppNamespace ==
    IF metadata.namespace.some THEN metadata.namespace.v
    ELSE sanitize_name(app_dir.project.v)

EmptySets == [destinations |-> {}, cluster_resource_whitelist |-> {}, source_repos |-> {}]

\* the three sets of the aggregate (t, key), empty while it does not exist
SetsOf(tgts, t, key) ==
    IF key \in DOMAIN tgts[t] THEN tgts[t][key].project.spec ELSE EmptySets

ApplicationsOf(tgts, t, key) ==
    IF key \in DOMAIN tgts[t] THEN tgts[t][key].applications ELSE <<>>

\* the application directory a manifest was rendered for, by discovery index
AppIndex(manifest) ==
    CHOOSE i \in DOMAIN DigitChar : DigitChar[i] = manifest.context.m.app_name.s[3]

\* C1: whenever process() takes a target entry that names a configured target,
\* whatever the project directory is called, the aggregate keyed by
\* (target, sanitized project name) exists afterwards, the run has not
\* panicked on the lookup, and unless the application template failed to
\* render, the manifest of this application is the new last element of the
\* manifest list of that same aggregate.
C1_ManifestJoinsKeyedAggregate ==
    [][TakesConfiguredEntry =>
         LET key == sanitize_name(app_dir.project.v)
             before == ApplicationsOf(targets, target', key)
         IN /\ key \in DOMAIN targets'[target']
            /\ pc' # "PanicUnwrap"
            /\ pc' # "RenderError" =>
                  LET after == targets'[target'][key].applications
                  IN /\ Len(after) = Len(before) + 1
                     /\ SubSeq(after, 1, Len(before)) = before
                     /\ after[Len(after)].context.m.app_name = String(app_dir.app_name)
                     /\ after[Len(after)].context.m.target_name = String(target')]_vars

RECURSIVE NullKeysAbsent(_, _)
\* every key that is null in the overlay, at any depth, is missing at the same
\* position of the result
NullKeysAbsent(overlay, result) ==
    is_object(overlay) =>
        \A k \in DOMAIN overlay.m :
            LET present == is_object(result) /\ k \in DOMAIN result.m
            IN IF is_null(overlay.m[k]) THEN ~present
               ELSE present => NullKeysAbsent(overlay.m[k], result.m[k])

\* C2: after merge(base, overlay), every key whose overlay value is null, at
\* the top level or inside a nested overlay map, is absent from the result at
\* that position, whatever the base holds there.
C2_NullKeysAbsent ==
    merge_pc = "merged" => NullKeysAbsent(merge_b, merge_a)

\* C3 as stated: merging an empty map leaves any base document unchanged,
\* be it a map, a list, a scalar or null.
C3_EmptyOverlayKeepsAnyBase ==
    (merge_pc = "merged" /\ merge_b = default_serde_object) => merge_a = merge_base

\* C3 amended: merging an empty map leaves a base that is a map unchanged, and
\* replaces a base that is not a map (a list, a scalar, null) by the empty map.
C3_EmptyOverlayKeepsMapBase ==
    (merge_pc = "merged" /\ merge_b = default_serde_object) =>
        IF is_object(merge_base) THEN merge_a = merge_base
        ELSE merge_a = default_serde_object

\* a map with entries, nested ones among them, was merged with the empty map
C3_Witness ==
    /\ merge_pc = "merged"
    /\ merge_b = default_serde_object
    /\ is_object(merge_base)
    /\ \E k \in DOMAIN merge_base.m : is_object(merge_base.m[k])

\* C4: the result of sanitize_name holds only characters of [a-z0-9.-], is at
\* most 253 characters long and neither starts nor ends with '-'.
C4_SanitizedShape ==
    name_pc \in {"once", "twice"} =>
        /\ \A i \in 1..Len(name_out) : name_out[i] \in ValidDnsNameChars
        /\ Len(name_out) <= 253
        /\ name_out # <<>> => name_out[1] # "-" /\ name_out[Len(name_out)] # "-"

\* a name longer than the limit, with characters to replace, was sanitized to
\* a non-empty name
C4_Witness ==
    /\ name_pc = "once"
    /\ Len(name_in) > max_dns_name_length
    /\ \E i \in 1..Len(name_in) : name_in[i] \notin ValidDnsNameChars
    /\ name_out # <<>>

\* C5: sanitizing the result of sanitize_name again returns it unchanged.
C5_SanitizeIdempotent ==
    name_pc = "twice" => name_twice = name_out

\* a name longer than the limit whose cut exposed '-' characters that the
\* trim then removed was sanitized twice
C5_Witness ==
    /\ name_pc = "twice"
    /\ Len(name_in) > max_dns_name_length
    /\ name_out # <<>>
    /\ Len(name_out) < max_dns_name_length - 1
    /\ replace_all(to_lowercase(name_in))[max_dns_name_length] = "-"

\* destinations one application contributes: its own namespace and every
\* additional namespace of its project-options
ContributedDestinations ==
    LET opts == metadata.project_options
    IN {InClusterDestination(AppNamespace)} \cup
       (IF opts.some /\ opts.v.additional_namespaces.some
        THEN {InClusterDestination(opts.v.additional_namespaces.v[i]) :
                 i \in DOMAIN opts.v.additional_namespaces.v}
        ELSE {})

\* whitelist entries one application contributes
ContributedWhitelist ==
    LET opts == metadata.project_options
    IN {NamespaceWhitelist} \cup
       (IF opts.some /\ opts.v.cluster_resource_whitelist.some
        THEN {opts.v.cluster_resource_whitelist.v[i] :
                 i \in DOMAIN opts.v.cluster_resource_whitelist.v}
        ELSE {})

\* C6: every step of process() leaves each aggregate (target, sanitized
\* project) with its three sets unchanged, unless the step is an application
\* contributing to that aggregate; then the source-repo set is exactly the
\* configured repository, the destination set is what it was plus the
\* in-cluster entries of the application's namespace and of its additional
\* namespaces, and the whitelist is what it was plus ("", Namespace) and the
\* listed entries.  The sets start empty, so each is the union of the
\* contributions, an entry contributed several times being one member.
C6_SetsAreUnionOfContributions ==
    [][pc \notin {"start", "idle"} =>
         \A t \in ConfigTargetNames : \A key \in DOMAIN targets'[t] :
            LET old == SetsOf(targets, t, key)
                new == targets'[t][key].project.spec
            IN IF TakesConfiguredEntry /\ target' = t
                    /\ key = sanitize_name(app_dir.project.v)
               THEN /\ new.source_repos = {config.argocd_source_repo}
                    /\ new.destinations = old.destinations \cup ContributedDestinations
                    /\ new.cluster_resource_whitelist =
                          old.cluster_resource_whitelist \cup ContributedWhitelist
               ELSE /\ key \in DOMAIN targets[t]
                    /\ new = old]_vars

\* two applications with different namespaces have contributed to one
\* aggregate: two destinations, and the Namespace whitelist entry once
C6_Witness ==
    /\ pc = "targets"
    /\ \E t \in DOMAIN targets : \E key \in DOMAIN targets[t] :
          /\ Len(targets[t][key].applications) >= 2
          /\ Cardinality(targets[t][key].project.spec.destinations) >= 2
          /\ targets[t][key].project.spec.cluster_resource_whitelist = {NamespaceWhitelist}
          /\ Cardinality(targets[t][key].project.spec.source_repos) = 1

\* the metadata of the current file lists two additional namespaces
HasTwoAdditionalNamespaces ==
    /\ metadata.project_options.some
    /\ metadata.project_options.v.additional_namespaces.some
    /\ Len(metadata.project_options.v.additional_namespaces.v) = 2

AdditionalDestinations ==
    {InClusterDestination(metadata.project_options.v.additional_namespaces.v[i]) : i \in {1, 2}}

\* C7 as stated: processing an application with two additional namespaces
\* makes the destination set of its project gain exactly two entries beyond
\* the application's default destination, whatever the set held before.
C7_GainsExactlyTwo ==
    [][(TakesConfiguredEntry /\ HasTwoAdditionalNamespaces) =>
         LET key == sanitize_name(app_dir.project.v)
             old == SetsOf(targets, target', key).destinations
             new == SetsOf(targets', target', key).destinations
         IN Cardinality(new) =
               Cardinality(old \cup {InClusterDestination(AppNamespace)}) + 2]_vars

\* C7 amended: processing an application with two additional namespaces
\* leaves the destination set equal to what it held, plus the application's
\* default destination, plus the in-cluster entry of each additional
\* namespace; beyond the default destination it gains as many entries as
\* there are additional entries not yet in the set: at most two, and two only
\* when the two namespaces differ from each other, from the application's
\* namespace and from every namespace contributed before.
C7_GainsAdditionalDestinations ==
    [][(TakesConfiguredEntry /\ HasTwoAdditionalNamespaces) =>
         LET key == sanitize_name(app_dir.project.v)
             old == SetsOf(targets, target', key).destinations
             new == SetsOf(targets', target', key).destinations
             withDefault == old \cup {InClusterDestination(AppNamespace)}
             gain == Cardinality(new) - Cardinality(withDefault)
         IN /\ new = withDefault \cup AdditionalDestinations
            /\ gain = Cardinality(AdditionalDestinations \ withDefault)
            /\ gain <= 2
            /\ gain = 2 <=> /\ Cardinality(AdditionalDestinations) = 2
                            /\ AdditionalDestinations \cap withDefault = {}]_vars

\* an application with two additional namespaces was processed for a project
\* that another application shares, and both namespaces are destinations
C7_Witness ==
    /\ pc = "targets"
    /\ target \in ConfigTargetNames
    /\ app_dir.project.some
    /\ HasTwoAdditionalNamespaces
    /\ LET key == sanitize_name(app_dir.project.v)
       IN /\ key \in DOMAIN targets[target]
          /\ \E i \in DOMAIN targets[target][key].applications :
                AppIndex(targets[target][key].applications[i]) < nfiles
          /\ AdditionalDestinations \subseteq targets[target][key].project.spec.destinations
          /\ Cardinality(targets[target][key].project.spec.destinations) >= 3

\* C8: the manifest list of every aggregate holds the manifests in the order
\* in which their applications were discovered, and every project file
\* written holds the serialized project first and then, for each manifest of
\* the list in that order, the document boundary marker and the manifest.
C8_ManifestsInDiscoveryOrder ==
    pc \notin {"start", "idle"} =>
        /\ \A t \in DOMAIN targets : \A key \in DOMAIN targets[t] :
              LET apps == targets[t][key].applications
              IN \A i, j \in DOMAIN apps :
                    i < j => AppIndex(apps[i]) <= AppIndex(apps[j])
        /\ \A q \in DOMAIN out_files :
              q[1] \in DOMAIN targets =>
                 LET apps == targets[q[1]][q[3]].applications
                     file == out_files[q]
                 IN /\ Len(file) = 1 + 2 * Len(apps)
                    /\ file[1].kind = "AppProject"
                    /\ file[1].metadata.name = q[3]
                    /\ \A i \in DOMAIN apps :
                          /\ file[2 * i] = DocumentBoundary
                          /\ file[2 * i + 1] = apps[i]

\* process() has returned Ok and a project file holds the manifests of three
\* different applications, discovered first, second and third
C8_Witness ==
    /\ pc = "Ok"
    /\ \E q \in DOMAIN out_files :
          /\ Len(out_files[q]) = 7
          /\ AppIndex(out_files[q][3]) = 1
          /\ AppIndex(out_files[q][5]) = 2
          /\ AppIndex(out_files[q][7]) = 3

\* C9: taking a target entry whose name is not configured changes no
\* aggregate, appends no manifest, copies nothing and runs no hook, and the
\* loop goes on with the next entry of the same list.
C9_UnknownTargetSkipped ==
    [][(pc = "targets" /\ work' = work + 1 /\ target' \notin ConfigTargetNames) =>
         /\ pc' = "targets"
         /\ UNCHANGED <<targets, out_tree, hooks, out_files, nfiles, app_dir, metadata>>]_vars

\* the second entry of a list was unknown and skipped, after the first entry
\* of the same application had been processed
C9_Witness ==
    /\ pc = "targets"
    /\ target = "staging2"
    /\ nentries = 2
    /\ \E t \in DOMAIN targets : \E key \in DOMAIN targets[t] :
          \E i \in DOMAIN targets[t][key].applications :
             AppIndex(targets[t][key].applications[i]) = nfiles

\* some hook script has exited with a non-zero status
HookFailed == \E i \in DOMAIN hooks : ~hooks[i].success

\* C10: once a hook script has exited with a non-zero status, process() has
\* returned the error, and nothing happens afterwards: no aggregate changes,
\* no manifest is appended, nothing is copied, no hook runs, and no further
\* target entry or metadata file is taken.
C10_HookFailureEndsRun ==
    /\ [](HookFailed => pc = "HookError")
    /\ [][HookFailed => UNCHANGED procVars]_vars

\* a hook has failed while the input tree could have held further entries
C10_Witness ==
    /\ pc = "HookError"
    /\ HookFailed
    /\ work < MaxWork
    /\ nentries = 1

\* C11: when copy_and_template_folder stops at a source file without an
\* extension, process() has returned the fatal value LayoutError through the
\* error path, and the application folder of that entry is left without the
\* file (neither copied nor rendered).
C11_NoExtensionIsLayoutError ==
    copy_fault = "no_extension" =>
        /\ pc = "LayoutError"
        /\ \E p \in DOMAIN out_tree : ~out_tree[p].complete

\* C12: the project files a successful run of process() leaves are fixed by
\* the configuration, the metadata files and the traversal order alone (all
\* of which the aggregates record): whatever keys the hash sets of this
\* process were given, the files are the same, byte for byte.
C12_OutputIndependentOfHashKeys ==
    pc = "Ok" =>
        \A seed \in HashSeeds :
            out_files = written_files(project_file_paths(DOMAIN targets), seed)

\* the keys of the serialized TemplateContext (the RenderContext fields)
RenderContextFields == DOMAIN to_value(gen_app_context).m

\* an option document has a table with the key k
HasKey(doc, k) == doc.some /\ is_object(doc.v) /\ k \in DOMAIN doc.v.m

\* what the built context holds at a key k that is no RenderContext field:
\* the value the metadata's application options give it (a null removes the
\* default, a table is kept entry by entry), else the default's value
MetadataWinsOverDefault(k) ==
    LET out == gen_template_context.m
    IN IF HasKey(gen_options, k)
       THEN LET v == gen_options.v.m[k]
            IN IF is_null(v) THEN k \in DOMAIN out => is_null(out[k])
               ELSE /\ k \in DOMAIN out
                    /\ IF is_object(v)
                       THEN /\ is_object(out[k])
                            /\ \A x \in DOMAIN v.m :
                                  ~is_null(v.m[x]) =>
                                      x \in DOMAIN out[k].m /\ out[k].m[x] = v.m[x]
                       ELSE out[k] = v
       ELSE IF gen_options.some /\ ~is_object(gen_options.v)
       THEN k \notin DOMAIN out
       ELSE IF HasKey(gen_defaults, k)
       THEN k \in DOMAIN out /\ out[k] = gen_defaults.v.m[k]
       ELSE k \notin DOMAIN out

\* C13: the context generate_argo_application_for_dir hands to the template
\* is a map that holds, at every RenderContext field (namespace, project,
\* normalized_project, app_name, normalized_app_name, target_name, path), the
\* RenderContext value, whatever the default and the metadata application
\* options hold at that key; at every other key the metadata's value wins
\* over the default's, and the default's value is there when the metadata
\* does not name the key; either document may be absent.
C13_ContextChain ==
    gen_pc = "built" =>
        /\ is_object(gen_template_context)
        /\ \A f \in RenderContextFields :
              /\ f \in DOMAIN gen_template_context.m
              /\ gen_template_context.m[f] = to_value(gen_app_context).m[f]
        /\ \A k \in OptionKeys \ RenderContextFields : MetadataWinsOverDefault(k)

\* both documents set the RenderContext field namespace, and both set the
\* key wave, to different values
C13_Witness ==
    /\ gen_pc = "built"
    /\ HasKey(gen_defaults, "namespace") /\ HasKey(gen_options, "namespace")
    /\ gen_defaults.v.m["namespace"] = Number(1)
    /\ gen_options.v.m["namespace"] = String(<<"o">>)
    /\ HasKey(gen_defaults, "wave") /\ HasKey(gen_options, "wave")
    /\ gen_defaults.v.m["wave"] = Number(1)
    /\ gen_options.v.m["wave"] = String(<<"o">>)
    /\ gen_template_context.m["wave"] = String(<<"o">>)
    /\ gen_template_context.m["namespace"] = String(gen_app_context.namespace)

\* the alphanumeric characters a sanitized name can hold
Alphanumerics == LowerLetters \cup Digits

\* C14: every non-empty result of sanitize_name starts with an alphanumeric
\* character and ends with one (rule 3 of the comment above sanitize_name).
C14_StartsAndEndsAlphanumeric ==
    (name_pc \in {"once", "twice"} /\ name_out # <<>>) =>
        /\ name_out[1] \in Alphanumerics
        /\ name_out[Len(name_out)] \in Alphanumerics

\* how process() ends when a step of the metadata pass fails: by one of
\* the errors of the pass, or by one of its panics
PassFailures ==
    {"MetadataError", "LayoutError", "RenderError", "CopyRenderError", "CopyError",
     "HookError", "PanicUnwrap", "PanicExtension"}

\* the metadata pass has failed
PassFailed == pc \in PassFailures \/ HookFailed

\* the output holds no project file of a configured target
NoProjectFile == \A p \in DOMAIN out_files : p[1] \notin ConfigTargetNames

\* output folder of the application and target entry the loop is at
CurrentPath == <<target', app_dir.project.v, app_dir.app_name>>

\* C15: once a step of the metadata pass has failed (metadata parse, layout,
\* render, copy, hook, or a panic), the output holds no argocd-config project
\* file of any configured target, and none is written afterwards; the step
\* that fails removes no application folder from the output and changes none
\* but the one it was copying.
C15_NoProjectFileAfterFailedPass ==
    /\ [](PassFailed => NoProjectFile)
    /\ [][pc' \in PassFailures =>
             /\ out_files' = out_files
             /\ \A p \in DOMAIN out_tree :
                   /\ p \in DOMAIN out_tree'
                   /\ out_tree'[p] # out_tree[p] =>
                          (app_dir.project.some /\ p = CurrentPath)]_vars

\* the pass has failed after an application was aggregated and its folder
\* fully copied: there was a project file to write, and the folder is there
C15_Witness ==
    /\ pc \in PassFailures
    /\ nfiles >= 2
    /\ \E t \in DOMAIN targets : DOMAIN targets[t] # {}
    /\ \E p \in DOMAIN out_tree : out_tree[p].complete
    /\ out_files = <<>>

====
